---- MODULE Spec2Model ----
(***************************************************************************)
(* Model of two parts of reth:                                             *)
(*                                                                         *)
(*  - crates/ethereum/payload/src/config.rs: EthereumBuilderConfig and     *)
(*    calculate_block_gas_limit, the gas limit of the next block.          *)
(*  - crates/optimism/rpc/src/eth/mod.rs: OpEthApiBuilder, OpEthApi, the   *)
(*    pre-Bedrock routing of get_code and the dev signer registry.         *)
(*                                                                         *)
(* Four specifications share the variables:                                *)
(*   GasSpec    EthereumBuilderConfig and calls of gas_limit               *)
(*   ChainSpec  a chain of blocks, each limit computed from its parent     *)
(*   Spec       the builder, the facade handles and the routed requests    *)
(*   SignerSpec the builder, the handles and the signer registry's lock    *)
(***************************************************************************)
EXTENDS Integers, Sequences, FiniteSets, TLC

VARIABLES
    \* ---- config.rs
    parent_gas_limit,   \* the argument of gas_limit; in ChainSpec the limit of the newest block
    desired_gas_limit,  \* EthereumBuilderConfig.desired_gas_limit
    overflow_checks,    \* build profile: TRUE = arithmetic overflow panics, FALSE = it wraps
    ret,                \* what the call returned: Pending, Value(v) or Panic
    \* ---- eth/mod.rs
    ctx,                \* the node's EthApiBuilderCtx, handed to every build()
    builder,            \* the OpEthApiBuilder value in flight: None or Some(builder)
    inners,             \* the Arc<OpEthApiInner> allocations, by index
    handles,            \* the OpEthApi values: each the index of the inner it points to
    last,               \* the last request served and what it returned
    signers,            \* per inner: eth_api.signers, the Vec behind the RwLock
    lock,               \* per inner: the RwLock's state
    pc,                 \* per handle: where its with_dev_accounts / signers().read() stands
    fresh,              \* per handle: the Vec random_signers returned, not yet stored
    observed,           \* per handle: the Vec it sees while it holds the read guard
    next_gen,           \* the number of random_signers calls so far
    \* ---- history variables (read by the properties only)
    genesis_gas_limit,  \* ChainSpec: the limit the chain started from
    requested,          \* the argument of the last with_sequencer since new()
    origin,             \* per handle: the build() call its facade comes from
    built_with,         \* per build() call: `requested` when build() ran
    shadow              \* per build() call: the Vec last stored through a handle of that
                        \* facade, and the handle that stored it (0: none yet)

gas_vars == <<parent_gas_limit, desired_gas_limit, overflow_checks, ret, genesis_gas_limit>>
facade_vars == <<ctx, builder, inners, handles, last, requested, origin, built_with>>
signer_vars == <<signers, lock, pc, fresh, observed, next_gen, shadow>>
vars == <<gas_vars, facade_vars, signer_vars>>

None == <<>>
Some(v) == <<v>>
Unwrap(o) == o[1]

(***************************************************************************)
(* Bounds of the model.                                                    *)
(***************************************************************************)
\* u64 is modelled as an unsigned word of WordBits bits: the sum of two words
\* has to stay below 2^31, the largest integer the model's arithmetic holds.
WordBits == 29
\* parents 0..SmallMax are tried one by one
SmallMax == 4
\* parents around k * GAS_LIMIT_BOUND_DIVISOR for k in 1..MaxMult
MaxMult == 4
\* how far around each interesting value the inputs are taken
Slack == 2
\* the chain starts from limits and targets within ChainSpan of 2 * GAS_LIMIT_BOUND_DIVISOR
ChainSpan == 12
\* the chain's inputs below 30M lie this far apart
ChainStride == 30000
\* block heights 0..MaxHeight; Bedrock activates at one of them
MaxHeight == 2
\* build() calls that return a facade
MaxFacades == 2
\* OpEthApi values alive (built or cloned)
MaxHandles == 3
\* with_dev_accounts calls
MaxGens == 3

U64Modulus == 2 ^ WordBits
U64Max == U64Modulus - 1
U64 == 0 .. U64Max

GAS_LIMIT_BOUND_DIVISOR == 1024
ETHEREUM_BLOCK_GAS_LIMIT_30M == 30000000

(***************************************************************************)
(* u64 arithmetic.                                                         *)
(***************************************************************************)
Pending == [kind |-> "pending", value |-> 0]
Value(v) == [kind |-> "value", value |-> v]
Panic == [kind |-> "panic", value |-> 0]

saturating_sub(a, b) == IF a >= b THEN a - b ELSE 0

\* a - b on u64: never below 0 where the code uses it; kept for completeness
checked_or_wrapping_sub(a, b, checks) ==
    IF a >= b THEN Value(a - b)
    ELSE IF checks THEN Panic ELSE Value((a - b) % U64Modulus)

\* a + b on u64: panics with overflow checks, wraps without
checked_or_wrapping_add(a, b, checks) ==
    IF a + b <= U64Max THEN Value(a + b)
    ELSE IF checks THEN Panic ELSE Value((a + b) % U64Modulus)

\* Ord::clamp: asserts min <= max, then max(min, min(self, max))
clamp(x, min, max) ==
    IF min > max THEN Panic
    ELSE IF x < min THEN Value(min)
    ELSE IF x > max THEN Value(max)
    ELSE Value(x)

\* off by one in delta: floor(parent / divisor) - 2
calculate_block_gas_limit_delta_off(parent, desired, checks) ==
    LET delta == saturating_sub(parent \div GAS_LIMIT_BOUND_DIVISOR, 2)
        min_gas_limit == checked_or_wrapping_sub(parent, delta, checks)
        max_gas_limit == checked_or_wrapping_add(parent, delta, checks)
    IN  IF min_gas_limit.kind = "panic" \/ max_gas_limit.kind = "panic" THEN Panic
        ELSE clamp(desired, min_gas_limit.value, max_gas_limit.value)

calculate_block_gas_limit(parent, desired, checks) ==
    LET delta == saturating_sub(parent \div GAS_LIMIT_BOUND_DIVISOR, 1)
        min_gas_limit == checked_or_wrapping_sub(parent, delta, checks)
        max_gas_limit == checked_or_wrapping_add(parent, delta, checks)
    IN  IF min_gas_limit.kind = "panic" \/ max_gas_limit.kind = "panic" THEN Panic
        ELSE clamp(desired, min_gas_limit.value, max_gas_limit.value)

\* EthereumBuilderConfig::gas_limit
gas_limit(config_desired, parent) ==
    calculate_block_gas_limit(parent, config_desired, overflow_checks)

(***************************************************************************)
(* Inputs of the gas limit policy.                                         *)
(***************************************************************************)
Near(x) == {y \in (x - Slack) .. (x + Slack) : y \in U64}

\* the largest parent whose parent + delta still fits the word
MaxSafeParent ==
    LET a == U64Modulus \div (GAS_LIMIT_BOUND_DIVISOR + 1)
        b == U64Modulus - a * (GAS_LIMIT_BOUND_DIVISOR + 1)
    IN  a * GAS_LIMIT_BOUND_DIVISOR
          + (IF b < GAS_LIMIT_BOUND_DIVISOR THEN b ELSE GAS_LIMIT_BOUND_DIVISOR - 1)

ParentInputs ==
    (0 .. SmallMax)
      \cup UNION {Near(k * GAS_LIMIT_BOUND_DIVISOR) : k \in 1 .. MaxMult}
      \cup {ETHEREUM_BLOCK_GAS_LIMIT_30M}
      \cup Near(MaxSafeParent)
      \cup Near(U64Max)

\* around parent - q, parent and parent + q, q = parent / divisor, and the two ends
DesiredAround(p) ==
    {0, U64Max}
      \cup UNION {Near(p + s * (p \div GAS_LIMIT_BOUND_DIVISOR)) : s \in {-1, 0, 1}}

DesiredInputs ==
    {1, ETHEREUM_BLOCK_GAS_LIMIT_30M, ETHEREUM_BLOCK_GAS_LIMIT_30M + 10000000}
      \cup UNION {DesiredAround(p) : p \in ParentInputs}

\* The chain's starting limit and target are taken from one window: the small
\* limits up to a little over 3 * divisor, the limits below 30M, and the
\* largest limits whose bound still fits the word.
ChainWindows ==
    { (0 .. SmallMax)
        \cup ((2 * GAS_LIMIT_BOUND_DIVISOR - ChainSpan) .. (2 * GAS_LIMIT_BOUND_DIVISOR + ChainSpan))
        \cup Near(3 * GAS_LIMIT_BOUND_DIVISOR),
      { ETHEREUM_BLOCK_GAS_LIMIT_30M - k * ChainStride : k \in 0 .. Slack },
      { MaxSafeParent - k * (MaxSafeParent \div GAS_LIMIT_BOUND_DIVISOR) : k \in 0 .. Slack } }

(***************************************************************************)
(* The facade's state while the gas limit policy runs, and the reverse.    *)
(***************************************************************************)
NoRequest == [op |-> "none"]

NoFacade ==
    /\ builder = None
    /\ inners = <<>>
    /\ handles = <<>>
    /\ last = NoRequest
    /\ requested = None
    /\ origin = <<>>
    /\ built_with = <<>>

FacadeIdle ==
    /\ ctx = [evm_config |-> [is_optimism |-> FALSE, bedrock_block |-> 0]]
    /\ NoFacade

SignersIdle ==
    /\ signers = <<>>
    /\ lock = <<>>
    /\ pc = <<>>
    /\ fresh = <<>>
    /\ observed = <<>>
    /\ next_gen = 0
    /\ shadow = <<>>

GasIdle ==
    /\ parent_gas_limit = 0
    /\ desired_gas_limit = ETHEREUM_BLOCK_GAS_LIMIT_30M
    /\ overflow_checks = TRUE
    /\ ret = Pending
    /\ genesis_gas_limit = 0

(***************************************************************************)
(* eth/mod.rs: the values the facade works on.                             *)
(***************************************************************************)
\* SequencerClient values
Targets == {"sequencer_a"}
OptionTargets == {None} \cup {Some(t) : t \in Targets}

Addresses == {"0xA"}
Heights == 0 .. MaxHeight

\* ctx.evm_config: whether the chain is the Optimism variant and where Bedrock activates
EvmConfigs == [is_optimism : BOOLEAN, bedrock_block : Heights]

\* alloy_eips::BlockId
BlockIdHash(h) == [kind |-> "Hash", block_hash |-> h, tag |-> "none", number |-> 0]
BlockIdNumber(n) == [kind |-> "Number", block_hash |-> "none", tag |-> "number", number |-> n]
BlockIdTag(t) == [kind |-> "Number", block_hash |-> "none", tag |-> t, number |-> 0]
BlockIds ==
    {BlockIdHash("0xB")}
      \cup {BlockIdNumber(n) : n \in Heights}
      \cup {BlockIdTag(t) : t \in {"latest", "earliest"}}

\* what provider.block_by_hash answers: Ok(Some(block)), Ok(None), Err(_)
Found(n) == [kind |-> "found", number |-> n]
NotFound == [kind |-> "not_found", number |-> 0]
ProviderError == [kind |-> "error", number |-> 0]
Lookups == {Found(n) : n \in Heights} \cup {NotFound, ProviderError}

\* the provider is asked only for a hash
LookupsFor(block_id) == IF block_id.kind = "Hash" THEN Lookups ELSE {NotFound}

\* BlockNumberOrTag::as_number
as_number(block_id) ==
    IF block_id.tag = "number" THEN Some(block_id.number) ELSE None

\* OpHardforks::is_bedrock_active_at_block
is_bedrock_active_at_block(config, block_number) ==
    block_number >= config.bedrock_block

\* the jsonrpsee client build() makes
HistoricalClient == [url |-> "", request_timeout_secs |-> 60]

\* DevSigner::random_signers(num): num signers with new random keys; a call's
\* keys are told from every other call's by the call's number
random_signers(num, gen) == [i \in 1 .. num |-> gen]

DEV_SIGNERS == 20

\* the registry while the old Vec is dropped and the new one not yet moved in
Dropped == <<0>>

\* the registry EthApiInner::new starts with
NewSigners == <<>>

Unlocked == [writer |-> 0, readers |-> {}]

Handles == DOMAIN handles

(***************************************************************************)
(* OpEthApi's accessors.                                                   *)
(***************************************************************************)
eth_api(h) == inners[handles[h]].eth_api

sequencer_client(h) == inners[handles[h]].sequencer_client

historical_rpc_provider(h) == inners[handles[h]].historical_rpc_provider

(***************************************************************************)
(* OpEthApi::is_optimism_pre_bedrock                                       *)
(***************************************************************************)
\* lines 112-130: the block number, or None where the code returns false
block_number_of(block_id, lookup) ==
    IF block_id.kind = "Hash"
    THEN IF lookup.kind = "found" THEN Some(lookup.number) ELSE None
    ELSE as_number(block_id)

\* a lookup that fails is taken for a pre-Bedrock block
is_optimism_pre_bedrock_fail_closed(h, block_id, lookup) ==
    LET block_number == block_number_of(block_id, lookup)
        config == eth_api(h).evm_config
    IN  IF block_number = None THEN config.is_optimism
        ELSE config.is_optimism /\ ~is_bedrock_active_at_block(config, Unwrap(block_number))

\* the chain's variant is not asked
is_optimism_pre_bedrock_any_chain(h, block_id, lookup) ==
    LET block_number == block_number_of(block_id, lookup)
        config == eth_api(h).evm_config
    IN  IF block_number = None THEN FALSE
        ELSE ~is_bedrock_active_at_block(config, Unwrap(block_number))

is_optimism_pre_bedrock(h, block_id, lookup) ==
    LET block_number == block_number_of(block_id, lookup)
        config == eth_api(h).evm_config
    IN  IF block_number = None THEN FALSE
        ELSE config.is_optimism /\ ~is_bedrock_active_at_block(config, Unwrap(block_number))

(***************************************************************************)
(* <OpEthApi as EthState>::get_code: who serves the request.  Both arms    *)
(* of the pre-Bedrock branch are empty in the source (the proxy request is *)
(* commented out), so every path ends in LoadState::get_code.              *)
(***************************************************************************)
get_code(h, address, block_id, lookup) ==
    IF block_id # None
    THEN IF is_optimism_pre_bedrock(h, Unwrap(block_id), lookup)
         THEN IF historical_rpc_provider(h) # None
              THEN "LoadState"
              ELSE "LoadState"
         ELSE "LoadState"
    ELSE "LoadState"

(***************************************************************************)
(* OpEthApiBuilder                                                         *)
(***************************************************************************)
\* OpEthApiBuilder::new
new_builder == [sequencer_client |-> None]

\* a target once set is kept
with_sequencer_keep_first(b, target) ==
    IF b.sequencer_client # None THEN b ELSE [b EXCEPT !.sequencer_client = target]

\* OpEthApiBuilder::with_sequencer
with_sequencer(b, target) == [b EXCEPT !.sequencer_client = target]

\* the OpEthApiInner build() allocates
new_inner(b, context) ==
    [ eth_api |-> [evm_config |-> context.evm_config],
      sequencer_client |-> b.sequencer_client,
      historical_rpc_provider |-> Some(HistoricalClient) ]

BuilderNew ==
    /\ builder = None
    /\ builder' = Some(new_builder)
    /\ requested' = None
    /\ UNCHANGED <<ctx, inners, handles, last, origin, built_with>>
    /\ UNCHANGED <<gas_vars, signer_vars>>

WithSequencer ==
    /\ builder # None
    /\ \E target \in OptionTargets :
          /\ builder' = Some(with_sequencer(Unwrap(builder), target))
          /\ requested' = target
    /\ UNCHANGED <<ctx, inners, handles, last, origin, built_with>>
    /\ UNCHANGED <<gas_vars, signer_vars>>

\* OpEthApiBuilder::build.  BlockingTaskPool::build() may fail (expect panics) and
\* HttpClientBuilder::build("") may fail (unwrap panics); a panic consumes the
\* builder and returns no facade.
Build ==
    /\ builder # None
    /\ Len(inners) < MaxFacades
    /\ Len(handles) < MaxHandles
    /\ \E outcome \in {"ok", "pool_failed", "client_failed"} :
          IF outcome = "ok"
          THEN /\ inners' = Append(inners, new_inner(Unwrap(builder), ctx))
               /\ handles' = Append(handles, Len(inners) + 1)
               /\ origin' = Append(origin, Len(built_with) + 1)
               /\ built_with' = Append(built_with, requested)
               /\ signers' = Append(signers, NewSigners)
               /\ lock' = Append(lock, Unlocked)
               /\ shadow' = Append(shadow, [signers |-> NewSigners, by |-> 0])
               /\ pc' = Append(pc, "idle")
               /\ fresh' = Append(fresh, <<>>)
               /\ observed' = Append(observed, None)
               /\ last' = [op |-> "build", result |-> outcome]
          ELSE /\ last' = [op |-> "build", result |-> outcome]
               /\ UNCHANGED <<inners, handles, origin, built_with>>
               /\ UNCHANGED <<signers, lock, shadow, pc, fresh, observed>>
    /\ builder' = None
    /\ UNCHANGED <<ctx, requested, next_gen>>
    /\ UNCHANGED gas_vars

\* a clone that copies the inner instead of sharing it
CloneDeep(h) ==
    /\ Len(handles) < MaxHandles
    /\ Len(inners) < MaxFacades
    /\ inners' = Append(inners, inners[handles[h]])
    /\ handles' = Append(handles, Len(inners) + 1)
    /\ origin' = Append(origin, origin[h])
    /\ signers' = Append(signers, signers[handles[h]])
    /\ lock' = Append(lock, Unlocked)
    /\ pc' = Append(pc, "idle")
    /\ fresh' = Append(fresh, <<>>)
    /\ observed' = Append(observed, None)
    /\ UNCHANGED <<ctx, builder, last, requested, built_with>>
    /\ UNCHANGED <<shadow, next_gen>>
    /\ UNCHANGED gas_vars

\* #[derive(Clone)] on OpEthApi: the Arc is cloned, the inner is shared
Clone(h) ==
    /\ Len(handles) < MaxHandles
    /\ handles' = Append(handles, handles[h])
    /\ origin' = Append(origin, origin[h])
    /\ pc' = Append(pc, "idle")
    /\ fresh' = Append(fresh, <<>>)
    /\ observed' = Append(observed, None)
    /\ UNCHANGED <<ctx, builder, inners, last, requested, built_with>>
    /\ UNCHANGED <<signers, lock, shadow, next_gen>>
    /\ UNCHANGED gas_vars

CloneHandle == \E h \in Handles : Clone(h)

(***************************************************************************)
(* Requests.                                                               *)
(***************************************************************************)
IsOptimismPreBedrock ==
    /\ \E h \in Handles, block_id \in BlockIds :
          \E lookup \in LookupsFor(block_id) :
              last' = [ op |-> "is_optimism_pre_bedrock", handle |-> h,
                        block_id |-> Some(block_id), lookup |-> lookup,
                        result |-> is_optimism_pre_bedrock(h, block_id, lookup) ]
    /\ UNCHANGED <<ctx, builder, inners, handles, requested, origin, built_with>>
    /\ UNCHANGED <<gas_vars, signer_vars>>

GetCode ==
    /\ \E h \in Handles, address \in Addresses,
          block_id \in {None} \cup {Some(b) : b \in BlockIds} :
          \E lookup \in (IF block_id = None THEN {NotFound} ELSE LookupsFor(Unwrap(block_id))) :
              last' = [ op |-> "get_code", handle |-> h,
                        block_id |-> block_id, lookup |-> lookup,
                        result |-> get_code(h, address, block_id, lookup) ]
    /\ UNCHANGED <<ctx, builder, inners, handles, requested, origin, built_with>>
    /\ UNCHANGED <<gas_vars, signer_vars>>

FacadeInit ==
    /\ GasIdle
    /\ ctx \in [evm_config : EvmConfigs]
    /\ NoFacade
    /\ SignersIdle

Next ==
    \/ BuilderNew
    \/ WithSequencer
    \/ Build
    \/ CloneHandle
    \/ IsOptimismPreBedrock
    \/ GetCode

Spec == FacadeInit /\ [][Next]_vars

(***************************************************************************)
(* The signer registry.  with_dev_accounts is                              *)
(*     *self.inner.eth_api.signers().write() = DevSigner::random_signers(20)*)
(* the right-hand side is evaluated first, then the write lock is taken,   *)
(* the old Vec is dropped, the new one is moved in and the guard released. *)
(* A reader takes signers().read(), looks, and releases.                   *)
(***************************************************************************)
inner_of(h) == handles[h]

DevGenerate(h) ==
    /\ pc[h] = "idle"
    /\ next_gen < MaxGens
    /\ next_gen' = next_gen + 1
    /\ fresh' = [fresh EXCEPT ![h] = random_signers(DEV_SIGNERS, next_gen + 1)]
    /\ pc' = [pc EXCEPT ![h] = "generated"]
    /\ UNCHANGED <<signers, lock, observed, shadow>>

\* RwLock::write: waits until there is no writer and no reader
DevWriteLock(h) ==
    /\ pc[h] = "generated"
    /\ lock[inner_of(h)] = Unlocked
    /\ lock' = [lock EXCEPT ![inner_of(h)].writer = h]
    /\ pc' = [pc EXCEPT ![h] = "locked"]
    /\ UNCHANGED <<signers, fresh, observed, next_gen, shadow>>

\* the assignment drops the Vec that was there
DevDropOld(h) ==
    /\ pc[h] = "locked"
    /\ signers' = [signers EXCEPT ![inner_of(h)] = Dropped]
    /\ pc' = [pc EXCEPT ![h] = "assigning"]
    /\ UNCHANGED <<lock, fresh, observed, next_gen, shadow>>

\* the new Vec is moved in; the guard is dropped at the end of the statement
DevStore(h) ==
    /\ pc[h] = "assigning"
    /\ signers' = [signers EXCEPT ![inner_of(h)] = fresh[h]]
    /\ shadow' = [shadow EXCEPT ![origin[h]] = [signers |-> fresh[h], by |-> h]]
    /\ fresh' = [fresh EXCEPT ![h] = <<>>]
    /\ lock' = [lock EXCEPT ![inner_of(h)].writer = 0]
    /\ pc' = [pc EXCEPT ![h] = "idle"]
    /\ UNCHANGED <<observed, next_gen>>

\* RwLock::read: waits until there is no writer; the reader looks at the Vec
SignersRead(h) ==
    /\ pc[h] = "idle"
    /\ lock[inner_of(h)].writer = 0
    /\ lock' = [lock EXCEPT ![inner_of(h)].readers = @ \cup {h}]
    /\ observed' = [observed EXCEPT ![h] = Some(signers[inner_of(h)])]
    /\ pc' = [pc EXCEPT ![h] = "reading"]
    /\ UNCHANGED <<signers, fresh, next_gen, shadow>>

\* the read guard is dropped, and with it the reader's view of the Vec
SignersReadDone(h) ==
    /\ pc[h] = "reading"
    /\ lock' = [lock EXCEPT ![inner_of(h)].readers = @ \ {h}]
    /\ observed' = [observed EXCEPT ![h] = None]
    /\ pc' = [pc EXCEPT ![h] = "idle"]
    /\ UNCHANGED <<signers, fresh, next_gen, shadow>>

WithDevAccounts ==
    /\ \E h \in Handles :
          \/ DevGenerate(h)
          \/ DevWriteLock(h)
          \/ DevDropOld(h)
          \/ DevStore(h)
    /\ UNCHANGED <<gas_vars, facade_vars>>

ReadSigners ==
    /\ \E h \in Handles :
          \/ SignersRead(h)
          \/ SignersReadDone(h)
    /\ UNCHANGED <<gas_vars, facade_vars>>

SignerInit ==
    /\ GasIdle
    /\ FacadeIdle
    /\ SignersIdle

SignerNext ==
    \/ BuilderNew
    \/ Build
    \/ CloneHandle
    \/ WithDevAccounts
    \/ ReadSigners

SignerSpec == SignerInit /\ [][SignerNext]_vars

(***************************************************************************)
(* GasSpec: EthereumBuilderConfig and one or more calls of gas_limit.      *)
(***************************************************************************)
\* EthereumBuilderConfig::new(): desired_gas_limit = ETHEREUM_BLOCK_GAS_LIMIT_30M
GasInit ==
    /\ parent_gas_limit = 0
    /\ desired_gas_limit = ETHEREUM_BLOCK_GAS_LIMIT_30M
    /\ overflow_checks \in BOOLEAN
    /\ ret = Pending
    /\ genesis_gas_limit = 0
    /\ FacadeIdle
    /\ SignersIdle

\* EthereumBuilderConfig::with_gas_limit
with_gas_limit(desired) ==
    /\ desired_gas_limit' = desired
    /\ ret' = Pending
    /\ UNCHANGED <<parent_gas_limit, overflow_checks, genesis_gas_limit>>

WithGasLimit ==
    /\ \E desired \in DesiredInputs : with_gas_limit(desired)
    /\ UNCHANGED <<facade_vars, signer_vars>>

\* EthereumBuilderConfig::gas_limit(parent_gas_limit)
GasLimit ==
    /\ \E parent \in ParentInputs :
          /\ parent_gas_limit' = parent
          /\ ret' = gas_limit(desired_gas_limit, parent)
    /\ UNCHANGED <<desired_gas_limit, overflow_checks, genesis_gas_limit>>
    /\ UNCHANGED <<facade_vars, signer_vars>>

GasNext == WithGasLimit \/ GasLimit

GasSpec == GasInit /\ [][GasNext]_vars

(***************************************************************************)
(* ChainSpec: every block's gas limit is gas_limit(its parent's limit);    *)
(* the payload builder keeps building blocks.                              *)
(***************************************************************************)
ChainInit ==
    /\ \E w \in ChainWindows :
          /\ parent_gas_limit \in w
          /\ desired_gas_limit \in w
    /\ genesis_gas_limit = parent_gas_limit
    /\ overflow_checks \in BOOLEAN
    /\ ret = Pending
    /\ FacadeIdle
    /\ SignersIdle

\* one block built on the newest one: its limit becomes the next parent limit
NextBlock ==
    /\ LET r == gas_limit(desired_gas_limit, parent_gas_limit)
       IN  /\ r.kind = "value"
           /\ parent_gas_limit' = r.value
           /\ ret' = r
    /\ UNCHANGED <<desired_gas_limit, overflow_checks, genesis_gas_limit>>
    /\ UNCHANGED <<facade_vars, signer_vars>>

ChainNext == NextBlock

ChainSpec == ChainInit /\ [][ChainNext]_vars /\ WF_vars(NextBlock)

(***************************************************************************)
(* Properties of the gas limit policy.                                     *)
(***************************************************************************)
\* delta as the specification states it, in unbounded integers
Delta(parent) ==
    LET q == parent \div GAS_LIMIT_BOUND_DIVISOR IN IF q >= 1 THEN q - 1 ELSE 0

Called == ret.kind # "pending"

\* Every value gas_limit returns lies within the bound (side check: it says
\* nothing of the calls that return no value).
ReturnedValueWithinBound ==
    ret.kind = "value" =>
        /\ parent_gas_limit - Delta(parent_gas_limit) <= ret.value
        /\ ret.value <= parent_gas_limit + Delta(parent_gas_limit)

\* C1: for every parent_gas_limit > 0 and every desired_gas_limit, gas_limit
\* returns a value r with parent - delta <= r <= parent + delta.
C1_WithinBound ==
    (Called /\ parent_gas_limit > 0) =>
        /\ ret.kind = "value"
        /\ parent_gas_limit - Delta(parent_gas_limit) <= ret.value
        /\ ret.value <= parent_gas_limit + Delta(parent_gas_limit)

\* C2: gas_limit is total: every call completes with a u64 result, also when
\* parent + delta exceeds the largest u64.
C2_Total ==
    Called => (ret.kind = "value" /\ ret.value \in U64)

\* C3: gas_limit returns desired_gas_limit clamped to the bound: desired
\* itself when it lies within, parent + delta when it is above, parent - delta
\* when it is below.
C3_ExactClamp ==
    Called =>
        LET lo == parent_gas_limit - Delta(parent_gas_limit)
            hi == parent_gas_limit + Delta(parent_gas_limit)
        IN  /\ ret.kind = "value"
            /\ (lo <= desired_gas_limit /\ desired_gas_limit <= hi)
                  => ret.value = desired_gas_limit
            /\ desired_gas_limit > hi => ret.value = hi
            /\ desired_gas_limit < lo => ret.value = lo

\* Side check: the same on the calls that return a value.
ReturnedValueIsClamp ==
    ret.kind = "value" =>
        LET lo == parent_gas_limit - Delta(parent_gas_limit)
            hi == parent_gas_limit + Delta(parent_gas_limit)
        IN  /\ (lo <= desired_gas_limit /\ desired_gas_limit <= hi)
                  => ret.value = desired_gas_limit
            /\ desired_gas_limit > hi => ret.value = hi
            /\ desired_gas_limit < lo => ret.value = lo

\* Side check: a call fails exactly when parent + delta does not fit a u64.
PanicsExactlyOnOverflow ==
    Called =>
        (ret.kind = "panic" <=> parent_gas_limit + Delta(parent_gas_limit) > U64Max)

\* Side check: MaxSafeParent is the last parent that does not overflow.
MaxSafeParentIsEdge ==
    /\ MaxSafeParent + Delta(MaxSafeParent) <= U64Max
    /\ (MaxSafeParent + 1) + Delta(MaxSafeParent + 1) > U64Max

(***************************************************************************)
(* Properties of the chain of blocks.                                      *)
(***************************************************************************)
Dist ==
    IF parent_gas_limit >= desired_gas_limit
    THEN parent_gas_limit - desired_gas_limit
    ELSE desired_gas_limit - parent_gas_limit

AtTarget == parent_gas_limit = desired_gas_limit

\* delta >= 1 from this limit on, up or down to the target
DeltaPositive ==
    /\ genesis_gas_limit >= 2 * GAS_LIMIT_BOUND_DIVISOR
    /\ desired_gas_limit >= 2 * GAS_LIMIT_BOUND_DIVISOR

\* C10 as claimed: over a chain of blocks the distance to desired_gas_limit
\* never increases, the limit equals desired_gas_limit after finitely many
\* blocks and stays equal to it, from every starting limit > 0.  A block's
\* limit is a function of its parent's limit and desired_gas_limit, so once a
\* block leaves the limit where it was every later block does: a chain that
\* arrives has no such block before its target (the second conjunct, which a
\* finite run refutes).
C10_ReachesDesiredFromAnyParent ==
    /\ [][Dist' <= Dist]_vars
    /\ [][(genesis_gas_limit > 0 /\ parent_gas_limit' = parent_gas_limit) => AtTarget]_vars
    /\ (genesis_gas_limit > 0 => <>[]AtTarget)

\* C10 as amended: the distance never increases from any starting limit, and
\* from a starting limit and a desired limit that are both at least
\* 2 * GAS_LIMIT_BOUND_DIVISOR the limit equals desired_gas_limit after
\* finitely many blocks and stays equal to it.
C10_ReachesDesiredWhenDeltaPositive ==
    /\ [][Dist' <= Dist]_vars
    /\ (DeltaPositive => <>[]AtTarget)

\* a chain that started two strides below its target of 30M and has arrived
C10_ArrivedFromBelow ==
    /\ ret.kind = "value"
    /\ AtTarget
    /\ desired_gas_limit = ETHEREUM_BLOCK_GAS_LIMIT_30M
    /\ genesis_gas_limit = ETHEREUM_BLOCK_GAS_LIMIT_30M - 2 * ChainStride

\* Side check: the chain never meets the overflow.
ChainNeverPanics ==
    gas_limit(desired_gas_limit, parent_gas_limit).kind = "value"

\* Side check: exactly which chains arrive.
ChainArrivesExactlyWhen ==
    LET arrives ==
          \/ genesis_gas_limit = desired_gas_limit
          \/ /\ genesis_gas_limit < desired_gas_limit
             /\ genesis_gas_limit >= 2 * GAS_LIMIT_BOUND_DIVISOR
          \/ /\ genesis_gas_limit > desired_gas_limit
             /\ desired_gas_limit >= 2 * GAS_LIMIT_BOUND_DIVISOR - 1
    IN  /\ arrives => <>[]AtTarget
        /\ ~arrives => []~AtTarget

(***************************************************************************)
(* Properties of the pre-Bedrock routing.                                  *)
(***************************************************************************)
IsRouterCall == last.op = "is_optimism_pre_bedrock"

\* the identifier gives no block height: a hash the provider does not
\* resolve, or a tag
Unresolved(block_id, lookup) ==
    \/ block_id.kind = "Hash" /\ lookup.kind \in {"not_found", "error"}
    \/ block_id.kind = "Number" /\ block_id.tag # "number"

\* the height the identifier gives, where it gives one
HeightOf(block_id, lookup) ==
    IF block_id.kind = "Hash" THEN lookup.number ELSE block_id.number

ConfigOf(h) == inners[handles[h]].eth_api.evm_config

\* C4: when no block height can be resolved (hash not found, provider error,
\* or a tag), is_optimism_pre_bedrock returns false on every chain and
\* surfaces no error.
C4_FailOpen ==
    (IsRouterCall /\ Unresolved(Unwrap(last.block_id), last.lookup))
        => last.result = FALSE

\* a provider error on a rollup chain whose Bedrock is still ahead
C4_ProviderErrorOnRollup ==
    /\ IsRouterCall
    /\ Unwrap(last.block_id).kind = "Hash"
    /\ last.lookup = ProviderError
    /\ ConfigOf(last.handle).is_optimism
    /\ ConfigOf(last.handle).bedrock_block > 0
    /\ last.result = FALSE

\* C5: with a resolved height h, is_optimism_pre_bedrock returns true exactly
\* when the chain is the Optimism variant and h is below the Bedrock
\* activation height.
C5_TrueIffRollupBeforeBedrock ==
    (IsRouterCall /\ ~Unresolved(Unwrap(last.block_id), last.lookup))
        => LET config == ConfigOf(last.handle)
               height == HeightOf(Unwrap(last.block_id), last.lookup)
           IN  last.result = (config.is_optimism /\ height < config.bedrock_block)

\* a block found by hash, below Bedrock on a rollup chain
C5_PreBedrockByHash ==
    /\ IsRouterCall
    /\ Unwrap(last.block_id).kind = "Hash"
    /\ last.lookup.kind = "found"
    /\ ConfigOf(last.handle).is_optimism
    /\ last.lookup.number < ConfigOf(last.handle).bedrock_block
    /\ last.result = TRUE

\* a block below the activation height of a chain that is no rollup
C5_NonRollupBelowActivation ==
    /\ IsRouterCall
    /\ Unwrap(last.block_id).tag = "number"
    /\ ~ConfigOf(last.handle).is_optimism
    /\ Unwrap(last.block_id).number < ConfigOf(last.handle).bedrock_block
    /\ last.result = FALSE

\* C6: get_code is served by the historical endpoint exactly when a block id
\* is given, the block is pre-Bedrock and a historical endpoint is
\* configured; otherwise by LoadState::get_code.
C6_HistoricalExactlyWhenPreBedrock ==
    last.op = "get_code" =>
        LET historical ==
              /\ last.block_id # None
              /\ is_optimism_pre_bedrock(last.handle, Unwrap(last.block_id), last.lookup)
              /\ historical_rpc_provider(last.handle) # None
        IN  /\ historical => last.result = "HistoricalEndpoint"
            /\ ~historical => last.result = "LoadState"

\* Side check: what the code does: every request goes to LoadState.
GetCodeAlwaysLocal ==
    last.op = "get_code" => last.result = "LoadState"

(***************************************************************************)
(* Properties of the builder.                                              *)
(***************************************************************************)
\* C7: sequencer_client() of a built facade and of each of its clones is the
\* argument of the last with_sequencer call before build (None if there was
\* none), and stays so.
C7_SequencerRoundTrip ==
    \A h \in Handles : sequencer_client(h) = built_with[origin[h]]

\* a facade built after with_sequencer was given a target, and a clone of it,
\* beside a facade built with no target
C7_TargetOnFacadeAndClone ==
    \E h1, h2, h3 \in Handles :
        /\ h1 # h2
        /\ origin[h1] = origin[h2]
        /\ sequencer_client(h1) = Some("sequencer_a")
        /\ sequencer_client(h2) = Some("sequencer_a")
        /\ sequencer_client(h3) = None

\* Side check: what build() recorded is never rewritten.
BuiltWithIsKept ==
    [][\A i \in DOMAIN built_with : built_with'[i] = built_with[i]]_vars

\* C8: no historical-endpoint URL is configured (build takes none), so a
\* built facade has no historical endpoint: historical_rpc_provider() is None.
C8_NoUrlNoClient ==
    \A h \in Handles : historical_rpc_provider(h) = None

\* Side check: what the code does: every facade has a client for the empty URL.
EveryFacadeHasEmptyUrlClient ==
    \A h \in Handles : historical_rpc_provider(h) = Some(HistoricalClient)

(***************************************************************************)
(* Properties of the signer registry.                                      *)
(***************************************************************************)
\* a registry as with_dev_accounts leaves it: DEV_SIGNERS signers of one call
IsDevRegistry(reg) ==
    /\ Len(reg) = DEV_SIGNERS
    /\ \E g \in 1 .. MaxGens : \A i \in 1 .. DEV_SIGNERS : reg[i] = g

\* C9: with_dev_accounts through a handle replaces the registry with exactly
\* 20 signers; a handle sees that registry exactly when it is a clone of the
\* same built facade; no read sees a registry that is being replaced.
C9_RegistrySharedByClonesOnly ==
    /\ \A h1, h2 \in Handles :
          (origin[h1] = origin[h2]) <=> (inner_of(h1) = inner_of(h2))
    /\ \A r \in Handles :
          /\ lock[inner_of(r)].writer = 0 =>
                /\ signers[inner_of(r)] = shadow[origin[r]].signers
                /\ signers[inner_of(r)] = NewSigners \/ IsDevRegistry(signers[inner_of(r)])
          /\ pc[r] = "reading" =>
                /\ signers[inner_of(r)] # Dropped
                /\ observed[r] = Some(signers[inner_of(r)])
          /\ observed[r] # None =>
                \/ Unwrap(observed[r]) = NewSigners
                \/ IsDevRegistry(Unwrap(observed[r]))

\* a handle reads the 20 signers another handle of its facade stored, while
\* the registry of a second facade is still as built
C9_CloneReadsWhatOtherHandleStored ==
    \E r, o \in Handles :
        /\ pc[r] = "reading"
        /\ shadow[origin[r]].by \notin {0, r}
        /\ observed[r] = Some(random_signers(DEV_SIGNERS, MaxGens))
        /\ origin[o] # origin[r]
        /\ signers[inner_of(o)] = NewSigners

====
